---- MODULE Spec2Model ----
(***************************************************************************)
(* Model of multi_agent_runner.py: module-level client setup, main(), the  *)
(* sequential loop over test_queries, call_agent_async() and the top-level *)
(* try/except around asyncio.run(main()).                                  *)
(*                                                                         *)
(* session.send_message_async is the only call to the external oracle: it  *)
(* either returns a response (text plus tool_calls) or raises.  Both       *)
(* outcomes, and every field of the response, are chosen                   *)
(* nondeterministically.                                                   *)
(***************************************************************************)
EXTENDS Integers, Sequences, FiniteSets, TLC

(* Largest number of tool calls a modelled response carries. *)
MaxToolCalls == 2

ModelFlash == "gemini-2.5-flash"
ModelPro == "gemini-2.5-pro"

(* ---- the Agent(...) definitions: name and model ---- *)
url_context_agent == [name |-> "UrlContextAgent", model |-> ModelFlash]
coding_agent == [name |-> "CodeAgent", model |-> ModelFlash]
veterinary_kb_agent == [name |-> "VeterinaryKBAgent", model |-> ModelFlash]
creative_agent == [name |-> "CreativeAgent", model |-> ModelPro]
net_sec_agent == [name |-> "NetSecAgent", model |-> ModelFlash]
system_security_agent == [name |-> "SystemSecurityAgent", model |-> ModelFlash]
remote_access_agent == [name |-> "RemoteAccessAgent", model |-> ModelFlash]
monitoring_agent == [name |-> "MonitoringAgent", model |-> ModelFlash]
subscription_agent == [name |-> "SubscriptionAgent", model |-> ModelFlash]
rf_spy_agent == [name |-> "RFSpyAgent", model |-> ModelFlash]
digital_media_agent == [name |-> "DigitalMediaAgent", model |-> ModelFlash]
poly_agent == [name |-> "PolyAgent", model |-> ModelFlash]

(* Mutation of planner_agent: the planner configured with the standard model. *)
planner_agent_flash == [name |-> "PlannerAgent", model |-> ModelFlash]

planner_agent == [name |-> "PlannerAgent", model |-> ModelPro]

(* root_agent.sub_agents, in registration order. *)
sub_agents ==
  << planner_agent, url_context_agent, coding_agent, veterinary_kb_agent,
     creative_agent, net_sec_agent, system_security_agent, remote_access_agent,
     monitoring_agent, subscription_agent, rf_spy_agent, digital_media_agent,
     poly_agent >>

root_agent == [name |-> "RootAgent", model |-> ModelFlash, sub_agents |-> sub_agents]

(* The configured agent key set: the names of the registered sub-agents. *)
AgentKeys == { sub_agents[n].name : n \in 1..Len(sub_agents) }

(* The model a registered sub-agent runs with. *)
AgentModel(k) == (CHOOSE a \in { sub_agents[n] : n \in 1..Len(sub_agents) } : a.name = k).model

(* ---- the fixed query list of main() ---- *)
test_queries ==
  << "capital city of Pakistan", "factorial script", "Parvovirus symptoms",
     "summarize article then run script", "Aircrack-ng", "SSH gateway",
     "social media campaign", "BitLocker", "motion sensors", "receipt validation",
     "RTL-SDR", "VLC DVB-T", "Lynis" >>

NumQueries == Len(test_queries)
QueryIds == 1..NumQueries

(* ---- what the oracle may answer ---- *)
(* Function names a tool call may carry: registered sub-agents using each  *)
(* model, and a name that is no registered agent.                          *)
OracleNames == {"PlannerAgent", "CreativeAgent", "CodeAgent", "Bogus"}
OracleTexts == {"", "answer"}
OracleArgs == {"args"}

(* A tool call: function.name, function.args, and whether it is an instance *)
(* of ToolCall.                                                             *)
ToolCalls == [name : OracleNames, args : OracleArgs, isToolCall : BOOLEAN]

RECURSIVE SeqsUpTo(_, _)
SeqsUpTo(S, n) ==
  IF n = 0 THEN { <<>> }
  ELSE LET shorter == SeqsUpTo(S, n - 1)
       IN  shorter \cup { Append(s, x) : s \in { t \in shorter : Len(t) = n - 1 }, x \in S }

Responses == [tool_calls : SeqsUpTo(ToolCalls, MaxToolCalls), text : OracleTexts]

NoResponse == [tool_calls |-> <<>>, text |-> "none"]

VARIABLES
  pc,          \* position of the script
  API_KEY,     \* os.environ.get("GEMINI_API_KEY"): "key" or "None"
  client,      \* "unset", "ok" or "None"
  session,     \* the one Session of main(): [created, sent]
  idx,         \* position of the for loop in test_queries
  status,      \* per query: pending, inflight, done, raised, cancelled
  sendCount,   \* per query: number of send_message_async calls made for it
  context,     \* what the session already held when the latest query was sent
  response,    \* call_agent_async's local: the response of the latest call
  delegated,   \* sub-agent runs behind that response: [key, model]
  stdout,      \* lines printed since the latest "[User Query]" line (or since start)
  exit         \* how the script ended: none, complete, fatal, interrupt, error

vars == << pc, API_KEY, client, session, idx, status, sendCount, context,
           response, delegated, stdout, exit >>

Line(kind, text) == [kind |-> kind, text |-> text]

(* ---- call_agent_async: what is printed for a response ---- *)

(* One line per tool call: the function name only. *)
ToolCallLine(tc) ==
  Line(IF tc.isToolCall THEN "routed" ELSE "tool", << tc.name >>)

(* Mutation of RoutingLines: only the first tool call is reported. *)
RoutingLinesFirstOnly(resp) ==
  IF resp.tool_calls # <<>>
    THEN << Line("toolhdr", <<>>), ToolCallLine(resp.tool_calls[1]) >>
    ELSE << Line("direct", <<>>) >>

(* if response.tool_calls: ... else: ... *)
RoutingLines(resp) ==
  IF resp.tool_calls # <<>>
    THEN << Line("toolhdr", <<>>) >>
         \o [n \in 1..Len(resp.tool_calls) |-> ToolCallLine(resp.tool_calls[n])]
    ELSE << Line("direct", <<>>) >>

(* Mutation of AgentOutput: the final answer is printed only when non-empty. *)
AgentOutputSkipEmpty(resp) ==
  << Line("header", <<>>) >> \o RoutingLines(resp)
  \o (IF resp.text = "" THEN <<>> ELSE << Line("final", << resp.text >>) >>)
  \o << Line("footer", <<>>) >>

(* Everything call_agent_async prints after the await returns. *)
AgentOutput(resp) ==
  << Line("header", <<>>) >> \o RoutingLines(resp)
  \o << Line("final", << resp.text >>), Line("footer", <<>>) >>

(* The sub-agent runs a response stands for: each tool call naming a      *)
(* registered sub-agent ran that agent with the model it was built with.  *)
Delegations(resp) ==
  LET tcs == resp.tool_calls
      hits == SelectSeq(tcs, LAMBDA tc : tc.name \in AgentKeys)
  IN  [n \in 1..Len(hits) |-> [key |-> hits[n].name, model |-> AgentModel(hits[n].name)]]

(* ---- the session ---- *)

(* Mutation of SendMessage: every query starts from an empty conversation. *)
SendMessageFresh(s, q) == [s EXCEPT !.sent = << q >>]

(* session.send_message_async(query): the query joins the session's conversation. *)
SendMessage(s, q) == [s EXCEPT !.sent = Append(@, q)]

(* ---- control flow of the loop ---- *)

(* Mutation of AwaitCall: the call is scheduled and the loop moves on. *)
AwaitCallNoWait(i) == [pc |-> "loop", idx |-> i + 1]

(* await call_agent_async(query, session): the loop is suspended on query i. *)
AwaitCall(i) == [pc |-> "awaiting", idx |-> i]

(* Mutation of RaiseFromSend: the failed query is tried again. *)
RaiseFromSendRetry(i) == [pc |-> "loop", idx |-> i, exit |-> "none"]

(* An exception of send_message_async is caught nowhere in call_agent_async *)
(* or main(): it reaches "except Exception" around asyncio.run.             *)
RaiseFromSend(i) == [pc |-> "exited", idx |-> i, exit |-> "error"]

Init ==
  /\ pc = "setup"
  /\ API_KEY \in {"key", "None"}
  /\ client = "unset"
  /\ session = [created |-> FALSE, sent |-> <<>>]
  /\ idx = 1
  /\ status = [i \in QueryIds |-> "pending"]
  /\ sendCount = [i \in QueryIds |-> 0]
  /\ context = <<>>
  /\ response = NoResponse
  /\ delegated = <<>>
  /\ stdout = <<>>
  /\ exit = "none"

(* Module level: read the credential, warn when missing, build the client. *)
ClientSetup(raises) ==
  /\ pc = "setup"
  /\ stdout' = stdout
              \o (IF API_KEY = "None" THEN << Line("warning", <<>>) >> ELSE <<>>)
              \o (IF raises THEN << Line("client_error", <<>>) >> ELSE <<>>)
  /\ client' = IF raises THEN "None" ELSE "ok"
  /\ pc' = "run"
  /\ UNCHANGED << API_KEY, session, idx, status, sendCount, context, response,
                  delegated, exit >>

(* main(): "if client is None: print FATAL; return". *)
MainNoClient ==
  /\ pc = "run"
  /\ client = "None"
  /\ stdout' = Append(stdout, Line("fatal", <<>>))
  /\ pc' = "exited"
  /\ exit' = "fatal"
  /\ UNCHANGED << API_KEY, client, session, idx, status, sendCount, context,
                  response, delegated >>

(* main() with a client: go on to create the session. *)
MainStart ==
  /\ pc = "run"
  /\ client = "ok"
  /\ pc' = "create_session"
  /\ UNCHANGED << API_KEY, client, session, idx, status, sendCount, context,
                  response, delegated, stdout, exit >>

(* session = await session_service.create_session_async(root_agent), banner. *)
CreateSession ==
  /\ pc = "create_session"
  /\ session' = [created |-> TRUE, sent |-> <<>>]
  /\ stdout' = Append(stdout, Line("banner", << root_agent.model >>))
  /\ pc' = "loop"
  /\ idx' = 1
  /\ UNCHANGED << API_KEY, client, status, sendCount, context, response,
                  delegated, exit >>

(* create_session_async raises: caught by "except Exception" at top level. *)
CreateSessionRaises ==
  /\ pc = "create_session"
  /\ stdout' = Append(stdout, Line("unexpected", <<>>))
  /\ pc' = "exited"
  /\ exit' = "error"
  /\ UNCHANGED << API_KEY, client, session, idx, status, sendCount, context,
                  response, delegated >>

(* Loop body up to the await: print the query, send it on the session. *)
CallAgent ==
  /\ pc = "loop"
  /\ idx <= NumQueries
  /\ stdout' = << Line("query", << test_queries[idx] >>) >>
  /\ context' = session.sent
  /\ session' = SendMessage(session, test_queries[idx])
  /\ status' = [status EXCEPT ![idx] = "inflight"]
  /\ sendCount' = [sendCount EXCEPT ![idx] = @ + 1]
  /\ pc' = AwaitCall(idx).pc
  /\ idx' = AwaitCall(idx).idx
  /\ response' = NoResponse
  /\ delegated' = <<>>
  /\ UNCHANGED << API_KEY, client, exit >>

(* The oracle returns: print the output, return to the loop. *)
OracleReturns(i, resp) ==
  /\ pc \in {"loop", "awaiting"}
  /\ status[i] = "inflight"
  /\ response' = resp
  /\ delegated' = Delegations(resp)
  /\ stdout' = stdout \o AgentOutput(resp)
  /\ status' = [status EXCEPT ![i] = "done"]
  /\ pc' = IF pc = "awaiting" THEN "loop" ELSE pc
  /\ idx' = IF pc = "awaiting" THEN idx + 1 ELSE idx
  /\ UNCHANGED << API_KEY, client, session, sendCount, context, exit >>

(* The oracle call raises. *)
OracleRaises(i) ==
  /\ pc \in {"loop", "awaiting"}
  /\ status[i] = "inflight"
  /\ status' = [status EXCEPT ![i] = "raised"]
  /\ pc' = RaiseFromSend(i).pc
  /\ idx' = RaiseFromSend(i).idx
  /\ exit' = RaiseFromSend(i).exit
  /\ stdout' = IF RaiseFromSend(i).exit = "error"
                 THEN Append(stdout, Line("unexpected", <<>>))
                 ELSE stdout
  /\ UNCHANGED << API_KEY, client, session, sendCount, context, response, delegated >>

(* The list is exhausted: print the completion message, main() returns. *)
Complete ==
  /\ pc = "loop"
  /\ idx > NumQueries
  /\ stdout' = Append(stdout, Line("complete", <<>>))
  /\ pc' = "exited"
  /\ exit' = "complete"
  /\ UNCHANGED << API_KEY, client, session, idx, status, sendCount, context,
                  response, delegated >>

(* KeyboardInterrupt while asyncio.run(main()) is running. *)
Interrupt ==
  /\ pc \in {"run", "create_session", "loop", "awaiting"}
  /\ status' = [i \in QueryIds |-> IF status[i] = "inflight" THEN "cancelled" ELSE status[i]]
  /\ stdout' = Append(stdout, Line("terminated", <<>>))
  /\ pc' = "exited"
  /\ exit' = "interrupt"
  /\ UNCHANGED << API_KEY, client, session, idx, sendCount, context, response,
                  delegated >>

(* The calls the oracle has not answered yet. *)
InFlight == { i \in QueryIds : status[i] = "inflight" }

Next ==
  \/ \E raises \in BOOLEAN : ClientSetup(raises)
  \/ MainNoClient
  \/ MainStart
  \/ CreateSession
  \/ CreateSessionRaises
  \/ CallAgent
  \/ \E i \in InFlight, resp \in Responses : OracleReturns(i, resp)
  \/ \E i \in InFlight : OracleRaises(i)
  \/ Complete
  \/ Interrupt

Spec == Init /\ [][Next]_vars

TypeOK ==
  /\ pc \in {"setup", "run", "create_session", "loop", "awaiting", "exited"}
  /\ exit \in {"none", "complete", "fatal", "interrupt", "error"}
  /\ idx \in 1..(NumQueries + 1)
  /\ status \in [QueryIds -> {"pending", "inflight", "done", "raised", "cancelled"}]

(* ---- reading the output of the latest call ---- *)
Returned == response # NoResponse
ToolEntries == SelectSeq(stdout, LAMBDA l : l.kind \in {"routed", "tool"})
RoutedNames == [n \in 1..Len(ToolEntries) |-> ToolEntries[n].text[1]]
KindCount(k) == Len(SelectSeq(stdout, LAMBDA l : l.kind = k))
FinalPos == CHOOSE n \in 1..Len(stdout) : stdout[n].kind = "final"
Sent == { i \in QueryIds : sendCount[i] > 0 }

C2_FallbackOnRaise ==
  \A i \in QueryIds :
    status[i] = "raised" =>
      /\ RoutedNames = << planner_agent.name >>
      /\ \E n \in 1..Len(delegated) : delegated[n].key = planner_agent.name

(* C3 (as stated): a query whose oracle call raised does not stop the      *)
(* driver: the run does not end in the error handler, and once the run is  *)
(* over without an interrupt the next query of the list was processed.     *)
C3_DriverContinuesAfterFailure ==
  \A i \in QueryIds :
    status[i] = "raised" =>
      /\ exit # "error"
      /\ (pc = "exited" /\ exit # "interrupt" /\ i < NumQueries) => status[i + 1] # "pending"

C5_OneAtATimeInOrder ==
  /\ Cardinality({ i \in QueryIds : status[i] = "inflight" }) <= 1
  /\ \A i, j \in QueryIds : (j < i /\ status[i] # "pending") => status[j] = "done"
  /\ \A i \in QueryIds : status[i] = "inflight" => (pc = "awaiting" /\ idx = i)

C5_Witness ==
  /\ status[1] = "done"
  /\ status[2] = "done"
  /\ status[3] = "inflight"

(* C6 (as stated): once the session exists, the driver stops only after    *)
(* the list is exhausted, every query processed, or on a keyboard          *)
(* interrupt.                                                              *)
C6_StopsOnlyWhenExhaustedOrInterrupted ==
  (pc = "exited" /\ session.created) =>
    \/ exit = "interrupt"
    \/ (exit = "complete" /\ \A i \in QueryIds : status[i] = "done")

C8_EarlyExitOnlyForCredentialOrInterrupt ==
  /\ (API_KEY = "None" /\ pc # "setup") => session.created \/ KindCount("warning") = 1
  /\ exit = "fatal" => Sent = {}
  /\ (pc = "exited" /\ exit # "complete") => (API_KEY = "None" \/ exit = "interrupt")

(* C9 (as stated): for a returned query the final text is printed once,    *)
(* after one entry per tool call that shows its name and arguments; with   *)
(* no tool call there is no entry.                                         *)
C9_FinalOnceAfterNamesAndArgs ==
  Returned =>
    /\ KindCount("final") = 1
    /\ stdout[FinalPos].text = << response.text >>
    /\ Len(ToolEntries) = Len(response.tool_calls)
    /\ \A n \in 1..Len(ToolEntries) :
         ToolEntries[n].text = << response.tool_calls[n].name, response.tool_calls[n].args >>
    /\ \A n \in 1..Len(stdout) : stdout[n].kind \in {"routed", "tool"} => n < FinalPos

(* C9 (amended): for a returned query the final text is printed once, even *)
(* when empty, after one entry per tool call that shows its function name  *)
(* only; with no tool call there is no entry.                              *)
C9_FinalOnceAfterNames ==
  Returned =>
    /\ KindCount("final") = 1
    /\ stdout[FinalPos].text = << response.text >>
    /\ Len(ToolEntries) = Len(response.tool_calls)
    /\ \A n \in 1..Len(ToolEntries) :
         /\ ToolEntries[n].text = << response.tool_calls[n].name >>
         /\ ToolEntries[n].kind = (IF response.tool_calls[n].isToolCall THEN "routed" ELSE "tool")
    /\ \A n \in 1..Len(stdout) : stdout[n].kind \in {"routed", "tool"} => n < FinalPos

C9_Witness ==
  /\ Returned
  /\ response.text = ""
  /\ Len(response.tool_calls) = 2
  /\ KindCount("final") = 1

(* C10: every query of the list is submitted to the oracle at most once,   *)
(* whether its call returned or raised; a failed query is not sent again.  *)
C10_NoRetry ==
  /\ \A i \in QueryIds : sendCount[i] <= 1
  /\ Len(session.sent) = Cardinality(Sent)
  /\ \A i \in QueryIds : status[i] # "pending" => sendCount[i] = 1

C10_Witness ==
  /\ pc = "exited"
  /\ status[2] = "raised"
  /\ sendCount[2] = 1
  /\ status[1] = "done"

====
